---------------------------- MODULE Spec2Model ----------------------------
(***************************************************************************)
(* A model of the SSO (Solar System Observer) DSL session: the REPL driver *)
(* (src/sso/repl.py), the tree-walking evaluator, the variable manager and *)
(* the arrow dispatcher (src/sso/interpreter.py) and the configuration     *)
(* store (src/sso/classes.py).                                             *)
(*                                                                         *)
(* Numbers are Python floats; the model keeps them as integers counted in  *)
(* hundredths (14.01 is 1401).  Instants are integers as well.             *)
(***************************************************************************)
EXTENDS Integers, Sequences, FiniteSets, TLC

VARIABLES
    pc,           \* "prompt": cmdloop waits in session.prompt; "eval": default() has parsed and is about to visit the tree
    running,      \* FALSE once cmdloop has been left
    code_buffer,  \* SSOShell.code_buffer, as the sequence of the lines it holds
    tree,         \* the parse tree default() is about to visit (a sequence of statements)
    variables,    \* VariableManager.variables
    bodies,       \* VariableManager.bodies
    observer,     \* VariableManager.observer (the observer hints), in insertion order
    env,          \* SSOSystemConfig.env
    obsDate,      \* the date field of every ephem.Observer object, by object identity
    nlines,       \* how many lines the user has typed so far
    last          \* what the last call of default() did (history)

vars == <<pc, running, code_buffer, tree, variables, bodies, observer, env, obsDate, nlines, last>>

----------------------------------------------------------------------------
(* Bounds *)

MaxLines == 4

----------------------------------------------------------------------------
(* Values of the DSL.  Every value is a record of the same shape:          *)
(*   t = "Num"   n = the float, in hundredths                               *)
(*   t = "Str"   s = the text                                               *)
(*   t = "Date"  n = the instant (ephem.Date), in seconds                   *)
(*   t = "Obs"   s = the identity of an ephem.Observer object               *)
(*   t = "Body"  s = the name attribute of an ephem.Body object             *)
(*   t = "Earth" s = the identity of the Observer an SSOEarth carries       *)
(*   t = "Ecl"   n = the period the eclipse search ran for                  *)
(*   t = "None"                                                             *)

Val(t, n, s) == [t |-> t, n |-> n, s |-> s]
Num(n)   == Val("Num", n, "")
Str(s)   == Val("Str", 0, s)
Date(d)  == Val("Date", d, "")
Obs(i)   == Val("Obs", 0, i)
Body(nm) == Val("Body", 0, nm)
Earth(i) == Val("Earth", 0, i)
Ecl(p)   == Val("Ecl", p, "")
None     == Val("None", 0, "")

(* The instant ephem.now() returned when SSOSystemConfig was built. *)
StartTime == 100000

----------------------------------------------------------------------------
(* Python dicts. *)

EmptyMap == [k \in {} |-> None]

Put(m, k, v) == [x \in (DOMAIN m) \cup {k} |-> IF x = k THEN v ELSE m[x]]

(* dict.get(k, d) *)
Get(m, k, d) == IF k \in DOMAIN m THEN m[k] ELSE d

(* VariableManager.observer keeps its insertion order (iter(values()) is   *)
(* read by the arrow dispatcher): a sequence of [k, v] entries, one per    *)
(* key.                                                                    *)
HintKeys(h) == {h[i].k : i \in 1..Len(h)}

HintGet(h, k, d) ==
    IF k \in HintKeys(h)
    THEN LET i == CHOOSE j \in 1..Len(h) : h[j].k = k IN h[i].v
    ELSE d

(* observer[k] = v: a present key keeps its place, a new key goes last. *)
HintPut(h, k, v) ==
    IF k \in HintKeys(h)
    THEN [j \in 1..Len(h) |-> IF h[j].k = k THEN [k |-> k, v |-> v] ELSE h[j]]
    ELSE Append(h, [k |-> k, v |-> v])

(* next(iter(observer.values()), d) *)
HintFirst(h, d) == IF Len(h) > 0 THEN h[1].v ELSE d

----------------------------------------------------------------------------
(* The evaluator's store: what a visit reads and writes.                   *)
(*   now  : the instant ephem.now() returns during this statement          *)
(*   disp : the arrow dispatches executed by this statement, in order      *)

Store(vs, bs, ob, en, od, now) ==
    [variables |-> vs, bodies |-> bs, observer |-> ob, env |-> en,
     obsDate |-> od, now |-> now, disp |-> <<>>]

(* The outcome of a visit: the store it leaves, its value, and the Python  *)
(* exception it raised ("" when it returned).                              *)
Ret(st, v)      == [st |-> st, v |-> v, err |-> ""]
Raise(st, exc)  == [st |-> st, v |-> None, err |-> exc]

(* Constants.KEYWORD: the names set_body refuses. *)
KEYWORD ==
    {"Sun", "Mercury", "Venus", "Earth", "Moon", "Mars", "Jupiter", "Io",
     "Europa", "Ganymede", "Callisto", "Saturn", "Uranus", "Neptune", "Pluto"}

(* The names n for which ephem.<n>() builds a body. *)
EphemBodies == KEYWORD \ {"Earth"}

(* The set_<name> methods SSOSystemConfig defines. *)
Setters == {"Tz", "Echo", "Log", "Here", "Time"}

(* float(value): a number or an ephem.Date (a float) converts; the strings *)
(* of the model are not numerals.                                          *)
FloatOk(v) == v.t \in {"Num", "Date"}
FloatOf(v) == IF v.t = "Date" THEN (v.n * 100) \div 86400 ELSE v.n
FloatErr(v) == IF v.t = "Str" THEN "ValueError" ELSE "TypeError"

(* SSOSystemConfig.set_Tz *)
set_Tz(st, value) ==
    IF FloatOk(value)
    THEN Ret([st EXCEPT !.env = Put(st.env, "Tz", Num(FloatOf(value)))], Str("UTC offset"))
    ELSE Raise(st, FloatErr(value))

(* str(value).lower() for the values a setter can receive: a float prints  *)
(* with its fraction ("0.0", "1.0"), a string is lower-cased.              *)
StrLower(v) ==
    CASE v.t = "Num" /\ v.n = 0   -> "0.0"
      [] v.t = "Num" /\ v.n = 100 -> "1.0"
      [] v.t = "Str" /\ v.s \in {"0"} -> "0"
      [] v.t = "Str" /\ v.s \in {"1"} -> "1"
      [] v.t = "Str" /\ v.s \in {"off", "Off", "OFF"} -> "off"
      [] v.t = "Str" /\ v.s \in {"on", "On", "ON"} -> "on"
      [] v.t = "Str" /\ v.s \in {"no", "No", "NO"} -> "no"
      [] v.t = "Str" /\ v.s \in {"yes", "Yes", "YES"} -> "yes"
      [] v.t = "Str" /\ v.s \in {"false", "False"} -> "false"
      [] v.t = "Str" /\ v.s \in {"true", "True"} -> "true"
      [] v.t = "Str" -> v.s
      [] OTHER -> "<object>"

(* boolean_setter(key_name): the wrapper that replaces set_Echo and set_Log *)
boolean_setter(key_name, st, value) ==
    LET s_val == StrLower(value)
        final_val == IF s_val \in {"0", "off", "false", "no"} THEN Str("No")
                     ELSE IF s_val \in {"1", "on", "true", "yes"} THEN Str("Yes")
                     ELSE value
    IN Ret([st EXCEPT !.env = Put(st.env, key_name, final_val)], Str("mode"))

(* SSOSystemConfig.set_Here *)
set_Here(st, value) ==
    Ret([st EXCEPT !.env = Put(st.env, "Here", value)], Str("Default observer"))

(* SSOSystemConfig.set_Time *)
set_Time(st, value) ==
    Ret([st EXCEPT !.env = Put(st.env, "Time", value)], Str("Observation date_time"))

(* set_body without the reserved-name branch. *)
set_body_Unreserved(st, name, value) ==
    IF name \in DOMAIN st.env /\ name \in Setters
    THEN CASE name = "Tz"   -> set_Tz(st, value)
           [] name = "Echo" -> boolean_setter("Echo", st, value)
           [] name = "Log"  -> boolean_setter("Log", st, value)
           [] name = "Here" -> set_Here(st, value)
           [] name = "Time" -> set_Time(st, value)
    ELSE IF name \in DOMAIN st.env
    THEN Ret([st EXCEPT !.env = Put(st.env, name, value)], value)
    ELSE Ret([st EXCEPT !.bodies = Put(st.bodies, name, value)], value)

(* VariableManager.set_body *)
set_body(st, name, value) ==
    IF name \in DOMAIN st.env
    THEN IF name \notin Setters
         THEN Ret(st, Str("Error: Cannot set"))      \* getattr raised AttributeError
         ELSE CASE name = "Tz"   -> set_Tz(st, value)
                [] name = "Echo" -> boolean_setter("Echo", st, value)
                [] name = "Log"  -> boolean_setter("Log", st, value)
                [] name = "Here" -> set_Here(st, value)
                [] name = "Time" -> set_Time(st, value)
    ELSE IF name \in KEYWORD
    THEN Ret(st, Str("Error: Cannot set Body name"))
    ELSE Ret([st EXCEPT !.bodies = Put(st.bodies, name, value)], value)

(* get_body that builds the default body on every load and stores none. *)
get_body_NoRegister(st, name) ==
    IF name \in DOMAIN st.env THEN Ret(st, st.env[name])
    ELSE IF name = "Now" THEN Ret(st, Date(st.now))
    ELSE IF name \in EphemBodies THEN Ret(st, Body(name))
    ELSE IF name \notin DOMAIN st.bodies THEN Raise(st, "ValueError: Unknown body")
    ELSE Ret(st, st.bodies[name])

(* VariableManager.get_body *)
get_body(st, name) ==
    IF name \in DOMAIN st.env THEN Ret(st, st.env[name])
    ELSE IF name = "Now" THEN Ret(st, Date(st.now))
    ELSE IF name \notin DOMAIN st.bodies
    THEN IF name \in EphemBodies
         THEN Ret([st EXCEPT !.bodies = Put(st.bodies, name, Body(name))], Body(name))
         ELSE Raise(st, "ValueError: Unknown body")
    ELSE Ret(st, st.bodies[name])

(* VariableManager.set_variable / get_variable *)
set_variable(st, name, value) == [st EXCEPT !.variables = Put(st.variables, name, value)]
get_variable(st, name) == Get(st.variables, name, Num(0))

----------------------------------------------------------------------------
(* Syntax trees.  A node is [op, name, val, kids]: op is the rule's name   *)
(* (the visitor method), name the identifier token, val a literal's value, *)
(* kids the child trees.                                                   *)

Node(op, name, val, kids) == [op |-> op, name |-> name, val |-> val, kids |-> kids]
Lit(v)            == Node(IF v.t = "Str" THEN "string_literal" ELSE "number", "", v, <<>>)
VarLoad(nm)       == Node("var_load", nm, None, <<>>)
BodyLoad(nm)      == Node("body_load", nm, None, <<>>)
AuxCall(nm, args) == Node("auxcall", nm, None, args)
FuncCall(nm, args) == Node("funccall", nm, None, args)
Arrow(l, r)       == Node("arrow_op", "", None, <<l, r>>)
Add(l, r)         == Node("add", "", None, <<l, r>>)
AssignVar(nm, e)  == Node("assign_var", nm, None, <<e>>)
AssignBody(nm, e) == Node("assign_body", nm, None, <<e>>)
Block(stmts)      == Node("block", "", None, stmts)
OrOp(l, r)        == Node("or_op", "", None, <<l, r>>)
AndAnd(l, r)      == Node("and_and", "", None, <<l, r>>)
NotOp(e)          == Node("not_op", "", None, <<e>>)
IfStmt(c, th)     == Node("if_stmt", "", None, <<c, Block(th)>>)
IfElse(c, th, el) == Node("if_stmt", "", None, <<c, Block(th), Block(el)>>)

----------------------------------------------------------------------------
(* The arrow dispatcher. *)

(* observer.date = v (ephem): a date or a float is taken; the strings of   *)
(* the model are not dates.  A float counts days, an instant seconds.      *)
DateOk(v) == v.t \in {"Date", "Num"}
DateOf(v) == IF v.t = "Num" THEN (v.n * 864) ELSE v.n
DateErr(v) == IF v.t = "Str" THEN "ValueError" ELSE "TypeError"

(* One executed dispatch, as the statement's history keeps it. *)
Dispatch(shape, l, r, date, runs) ==
    [shape |-> shape, l |-> l, r |-> r, date |-> date, runs |-> runs]

Log1(st, d) == [st EXCEPT !.disp = Append(st.disp, d)]

(* Observer -> Body that keeps a date an earlier statement wrote. *)
ObserverToBody_KeepDate(st, obs, target) ==
    LET default_date == Get(st.env, "Time", Date(st.now))
        d == HintGet(st.observer, target.s, default_date)
        kept == IF st.obsDate[obs.s] # StartTime THEN st.obsDate[obs.s] ELSE DateOf(d)
    IN IF ~DateOk(d) THEN Raise(Log1(st, Dispatch("Observer->Body", obs, target, None, 0)), DateErr(d))
       ELSE LET st1 == [st EXCEPT !.obsDate = Put(st.obsDate, obs.s, kept)]
            IN Raise(Log1(st1, Dispatch("Observer->Body", obs, target, Date(DateOf(d)), 0)),
                     "AttributeError")

(* Pattern 1, Observer -> Body (execute, lines 132-152): the date is       *)
(* written, then CelestialCalculator.calculate_current_position is called, *)
(* a method the class does not define (it defines                          *)
(* caluclate_current_position).                                            *)
ObserverToBody(st, obs, target) ==
    LET default_date == Get(st.env, "Time", Date(st.now))
        d == HintGet(st.observer, target.s, default_date)
    IN IF ~DateOk(d) THEN Raise(Log1(st, Dispatch("Observer->Body", obs, target, None, 0)), DateErr(d))
       ELSE LET st1 == [st EXCEPT !.obsDate = Put(st.obsDate, obs.s, DateOf(d))]
            IN Raise(Log1(st1, Dispatch("Observer->Body", obs, target, Date(DateOf(d)), 0)),
                     "AttributeError")

(* Pattern 2, Observer -> Observer: the formatted geometry. *)
ObserverToObserver(st, obs, target) ==
    Ret(Log1(st, Dispatch("Observer->Observer", obs, target, None, 0)), Str("distance"))

(* Pattern 3, Body -> Body: _calculate_separation computes both bodies on  *)
(* env["Here"] as it stands, at the date that observer carries (compute    *)
(* takes a date or a float in the place of an observer too).               *)
_calculate_separation(st, body1, body2) ==
    LET here == st.env["Here"]
    IN IF here.t = "Obs"
       THEN Ret(Log1(st, Dispatch("Body->Body", body1, body2, Date(st.obsDate[here.s]), 0)),
                Str("separation"))
       ELSE IF DateOk(here)
       THEN Ret(Log1(st, Dispatch("Body->Body", body1, body2, Date(DateOf(here)), 0)),
                Str("separation"))
       ELSE Raise(Log1(st, Dispatch("Body->Body", body1, body2, None, 0)), "TypeError")

(* Pattern 4.1, Sun -> Observer: the SSOEarth carrying the observer. *)
SunToObserver(st, obs, target) ==
    LET s_date == HintGet(st.observer, "Sun", None)
        d == IF s_date # None THEN s_date ELSE Get(st.env, "Time", Date(st.now))
    IN IF ~DateOk(d) THEN Raise(Log1(st, Dispatch("Sun->Observer", obs, target, None, 0)), DateErr(d))
       ELSE LET st1 == [st EXCEPT !.obsDate = Put(st.obsDate, target.s, DateOf(d))]
            IN Ret(Log1(st1, Dispatch("Sun->Observer", obs, target, Date(DateOf(d)), 0)),
                   Earth(target.s))

(* int(v) of the period hint. *)
IntOk(v) == v.t \in {"Num", "Date"}
IntOf(v) == IF v.t = "Num" THEN v.n \div 100 ELSE v.n \div 86400

(* SSOEarth.lunar_eclipse(period, place): one run of the eclipse engine. *)
lunar_eclipse(period, place) == Ecl(period)

(* Pattern 4.1, SSOEarth -> Moon: the eclipse search. *)
EarthToMoon(st, obs, target) ==
    LET p == HintGet(st.observer, "Moon", Num(500))
        place == HintFirst(st.observer, Str("here"))
    IN IF ~IntOk(p) THEN Raise(Log1(st, Dispatch("Earth->Moon", obs, target, None, 0)), DateErr(p))
       ELSE Ret(Log1(st, Dispatch("Earth->Moon", obs, target, place, 1)),
                lunar_eclipse(IntOf(p), place))

(* What execute does with a pair no pattern takes: it runs off its end and *)
(* returns None (the "Invalid arrow operation" return is placed after the  *)
(* return statement of _split_date and is never reached).                  *)
Unmatched(st, obs, target) ==
    Ret(Log1(st, Dispatch("none", obs, target, None, 0)), None)

(* ArrowOperationHandler.execute *)
execute(st, obs, target) ==
    IF obs.t = "Obs" /\ target.t = "Body" THEN ObserverToBody(st, obs, target)
    ELSE IF obs.t = "Obs" /\ target.t = "Obs" THEN ObserverToObserver(st, obs, target)
    ELSE IF obs.t = "Body" /\ target.t = "Body" THEN _calculate_separation(st, obs, target)
    ELSE IF obs.t = "Body" /\ obs.s = "Sun" /\ target.t = "Obs" THEN SunToObserver(st, obs, target)
    ELSE IF obs.t = "Earth" /\ target.t = "Body" /\ target.s = "Moon" THEN EarthToMoon(st, obs, target)
    ELSE Unmatched(st, obs, target)

----------------------------------------------------------------------------
(* The tree-walking evaluator. *)

(* bool(v) *)
Truthy(v) ==
    CASE v.t = "Num"  -> v.n # 0
      [] v.t = "Str"  -> v.s # ""
      [] v.t = "None" -> FALSE
      [] OTHER        -> TRUE

(* int of the Direction arguments: no argument gives 0; one float is       *)
(* truncated towards zero; one string is read as a numeral.                *)
Trunc(n) == IF n >= 0 THEN n \div 100 ELSE -((-n) \div 100)
Numerals == {"4", "8", "16"}
IntOfNumeral(s) == CASE s = "4" -> 4 [] s = "8" -> 8 [] s = "16" -> 16
IntArgsErr(args) ==
    IF Len(args) = 0 THEN ""
    ELSE IF Len(args) > 1 THEN "TypeError"
    ELSE CASE args[1].t \in {"Num", "Date"} -> ""
           [] args[1].t = "Str" -> IF args[1].s \in Numerals THEN "" ELSE "ValueError"
           [] OTHER -> "TypeError"
IntArgs(args) ==
    IF Len(args) = 0 THEN 0
    ELSE CASE args[1].t = "Num"  -> Trunc(args[1].n)
           [] args[1].t = "Date" -> args[1].n \div 86400
           [] args[1].t = "Str"  -> IntOfNumeral(args[1].s)

(* The "Direction" case of _dispatch_function. *)
DirectionCall(st, args) ==
    IF IntArgsErr(args) # "" THEN Raise(st, IntArgsErr(args))
    ELSE LET direction == IntArgs(args)
         IN IF direction \in {4, 8, 16}
            THEN Ret([st EXCEPT !.env = Put(st.env, "Direction", Num(direction * 100))],
                     Val("List", Len(args), ""))
            ELSE Raise(st, "ValueError: Allowed values are 4, 8, 16")

(* SSOInterpreter._handle_home_function: self.Home is the Observer object  *)
(* env["Here"] held when the configuration was loaded.                     *)
_handle_home_function(st) ==
    Ret([st EXCEPT !.env = Put(st.env, "Here", Obs("here"))], None)

(* The strings strptime reads with "%Y/%m/%d %H:%M:%S", and their instants. *)
UtcStrings == {"2026/01/21 20:00:00", "2026/06/21 00:00:00"}
UtcInstant(s) ==
    CASE s = "2026/01/21 20:00:00" -> 200000
      [] s = "2026/06/21 00:00:00" -> 300000

(* A local date-time text: t = "Local", n = the wall-clock second it       *)
(* names, s = what follows the 19 characters of the date and the time.     *)
Local(wall, rest) == Val("Local", wall, rest)

(* A text strptime reads with "%Y/%m/%d %H:%M:%S": the wall-clock second. *)
WallOk(v) == (v.t = "Str" /\ v.s \in UtcStrings) \/ (v.t = "Local" /\ v.s = "")
WallOf(v) == IF v.t = "Local" THEN v.n ELSE UtcInstant(v.s)

(* SSOSystemConfig.toUTC: the text gets "+" and int(Tz*100) printed with   *)
(* ":04" appended and is read with "%z", which takes the four digits as    *)
(* hours and minutes; a negative number prints with its sign ("+-500")     *)
(* and minutes of 60 and more are not read.                                *)
toUTC(Tz, tz_date) ==
    IF tz_date.t \notin {"Str", "Local"} \/ Tz.t # "Num" THEN [err |-> "TypeError", v |-> None]
    ELSE LET digits == Tz.n
         IN IF ~WallOk(tz_date) \/ digits < 0 \/ digits % 100 >= 60
            THEN [err |-> "ValueError", v |-> None]
            ELSE [err |-> "",
                  v |-> Date(WallOf(tz_date) - (digits \div 100) * 3600 - (digits % 100) * 60)]

(* SSOSystemConfig.fromUTC: the instant moved by timedelta(hours=Tz),      *)
(* printed as date, time and "[Tz]".                                       *)
fromUTC(Tz, utc_val) ==
    IF Tz.t # "Num" \/ utc_val.t # "Date" THEN [err |-> "TypeError", v |-> None]
    ELSE [err |-> "", v |-> Local(utc_val.n + Tz.n * 36, "[Tz]")]

(* SSOInterpreter._handle_date_function, with an argument: an exception of *)
(* toUTC is logged and the current instant returned.                       *)
_handle_date_function(st, args) ==
    LET r == toUTC(st.env["Tz"], args[1])
    IN IF r.err = "" THEN Ret(st, r.v) ELSE Ret(st, Date(st.now))

(* SSOInterpreter._handle_utc_function, with an argument *)
_handle_utc_function(st, args) ==
    IF args[1].t = "Str" /\ args[1].s \in UtcStrings
    THEN Ret(st, Date(UtcInstant(args[1].s)))
    ELSE Ret(st, Date(st.now))

(* SSOInterpreter._dispatch_function *)
_dispatch_function(st, func_name, args) ==
    CASE func_name = "Direction" -> DirectionCall(st, args)
      [] func_name = "Home"      -> _handle_home_function(st)
      [] func_name = "Now"       -> Ret(st, Date(st.now))
      [] func_name = "UTC" /\ Len(args) > 0 -> _handle_utc_function(st, args)
      [] func_name = "Date" /\ Len(args) > 0 -> _handle_date_function(st, args)
      [] OTHER -> Raise(st, "AttributeError")   \* a name the ephem module lacks

(* left + right of two floats; a body, an observer or None cannot be added. *)
AddValues(st, l, r) ==
    IF l.t \in {"Num", "Date"} /\ r.t \in {"Num", "Date"}
    THEN Ret(st, Num(FloatOf(l) + FloatOf(r)))
    ELSE Raise(st, "TypeError")

RECURSIVE Eval(_, _)
RECURSIVE EvalArgs(_, _, _)
RECURSIVE EvalStmts(_, _, _)

(* SSOInterpreter.arglist: the children, left to right. *)
EvalArgs(kids, st, acc) ==
    IF kids = <<>> THEN [st |-> st, vs |-> acc, err |-> ""]
    ELSE LET r == Eval(Head(kids), st)
         IN IF r.err # "" THEN [st |-> r.st, vs |-> acc, err |-> r.err]
            ELSE EvalArgs(Tail(kids), r.st, Append(acc, r.v))

(* The loop of SSOInterpreter.block and SSOInterpreter.start: every         *)
(* statement in order, the value of the last one.                          *)
EvalStmts(stmts, st, last_result) ==
    IF stmts = <<>> THEN Ret(st, last_result)
    ELSE LET r == Eval(Head(stmts), st)
         IN IF r.err # "" THEN r
            ELSE EvalStmts(Tail(stmts), r.st, r.v)

(* SSOInterpreter.auxcall *)
auxcall(e, st) ==
    IF e.kids = <<>> THEN Ret(st, None)
    ELSE LET a == EvalArgs(e.kids, st, <<>>)
         IN IF a.err # "" THEN Raise(a.st, a.err)
            ELSE get_body([a.st EXCEPT !.observer = HintPut(a.st.observer, e.name, a.vs[1])],
                          e.name)

(* SSOInterpreter.funccall *)
funccall(e, st) ==
    LET a == EvalArgs(e.kids, st, <<>>)
    IN IF a.err # "" THEN Raise(a.st, a.err)
       ELSE _dispatch_function(a.st, e.name, a.vs)

(* SSOInterpreter.arrow_op *)
arrow_op(e, st) ==
    LET left == Eval(e.kids[1], st)
    IN IF left.err # "" THEN left
       ELSE LET right == Eval(e.kids[2], left.st)
            IN IF right.err # "" THEN right
               ELSE execute(right.st, left.v, right.v)

(* SSOInterpreter.add *)
add(e, st) ==
    LET left == Eval(e.kids[1], st)
    IN IF left.err # "" THEN left
       ELSE LET right == Eval(e.kids[2], left.st)
            IN IF right.err # "" THEN right
               ELSE AddValues(right.st, left.v, right.v)

(* float(value) *)
Float(st, value) ==
    IF FloatOk(value) THEN Ret(st, Num(FloatOf(value))) ELSE Raise(st, FloatErr(value))

(* SSOInterpreter.or_op: float(left or right); or gives its left operand   *)
(* when that is true and its right operand otherwise.                      *)
or_op(e, st) ==
    LET left == Eval(e.kids[1], st)
    IN IF left.err # "" THEN left
       ELSE LET right == Eval(e.kids[2], left.st)
            IN IF right.err # "" THEN right
               ELSE Float(right.st, IF Truthy(left.v) THEN left.v ELSE right.v)

(* SSOInterpreter.and_and: float(left and right); and gives its left       *)
(* operand when that is false and its right operand otherwise.             *)
and_and(e, st) ==
    LET left == Eval(e.kids[1], st)
    IN IF left.err # "" THEN left
       ELSE LET right == Eval(e.kids[2], left.st)
            IN IF right.err # "" THEN right
               ELSE Float(right.st, IF Truthy(left.v) THEN right.v ELSE left.v)

(* SSOInterpreter.not_op: float(not value) *)
not_op(e, st) ==
    LET value == Eval(e.kids[1], st)
    IN IF value.err # "" THEN value
       ELSE Ret(value.st, Num(IF Truthy(value.v) THEN 0 ELSE 100))

(* SSOInterpreter.assign_var *)
assign_var(e, st) ==
    LET expr == Eval(e.kids[1], st)
    IN IF expr.err # "" THEN expr
       ELSE Ret(set_variable(expr.st, e.name, expr.v), expr.v)

(* SSOInterpreter.assign_body *)
assign_body(e, st) ==
    LET expr == Eval(e.kids[1], st)
    IN IF expr.err # "" THEN expr
       ELSE set_body(expr.st, e.name, expr.v)

(* if_stmt that takes every condition for true. *)
if_stmt_AlwaysThen(e, st) ==
    LET condition_result == Eval(e.kids[1], st)
    IN IF condition_result.err # "" THEN condition_result
       ELSE Eval(e.kids[2], condition_result.st)

(* SSOInterpreter.if_stmt *)
if_stmt(e, st) ==
    LET condition_result == Eval(e.kids[1], st)
    IN IF condition_result.err # "" THEN condition_result
       ELSE IF Truthy(condition_result.v) THEN Eval(e.kids[2], condition_result.st)
       ELSE IF Len(e.kids) > 2 THEN Eval(e.kids[3], condition_result.st)
       ELSE Ret(condition_result.st, None)

(* Interpreter.visit: the method named after the node's rule. *)
Eval(e, st) ==
    CASE e.op \in {"number", "string_literal"} -> Ret(st, e.val)
      [] e.op = "var_load"    -> Ret(st, get_variable(st, e.name))
      [] e.op = "body_load"   -> get_body(st, e.name)
      [] e.op = "auxcall"     -> auxcall(e, st)
      [] e.op = "funccall"    -> funccall(e, st)
      [] e.op = "arrow_op"    -> arrow_op(e, st)
      [] e.op = "add"         -> add(e, st)
      [] e.op = "or_op"       -> or_op(e, st)
      [] e.op = "and_and"     -> and_and(e, st)
      [] e.op = "not_op"      -> not_op(e, st)
      [] e.op = "assign_var"  -> assign_var(e, st)
      [] e.op = "assign_body" -> assign_body(e, st)
      [] e.op = "if_stmt"     -> if_stmt(e, st)
      [] e.op = "block"       -> EvalStmts(e.kids, st, None)

(* SSOInterpreter.start *)
start(stmts, st) == EvalStmts(stmts, st, None)

----------------------------------------------------------------------------
(* Input lines and the parser.  A line is what the user types at one       *)
(* prompt:                                                                 *)
(*   "stmt"  a complete one-line statement (its tree in e)                 *)
(*   "if"    IF <e> THEN                                                   *)
(*   "else"  ELSE                                                          *)
(*   "endif" ENDIF                                                         *)
(*   "bad"   text the grammar rejects at a token of the line               *)
(*   "exit"  the shell command exit                                        *)

Line(kind, e) == [kind |-> kind, e |-> e]
Stmt(e)   == Line("stmt", e)
IfLine(c) == Line("if", c)
ElseLine  == Line("else", Lit(None))
EndifLine == Line("endif", Lit(None))
BadLine   == Line("bad", Lit(None))
ExitLine  == Line("exit", Lit(None))

Kinds(buf) == {buf[i].kind : i \in 1..Len(buf)}

(* The statements of the lines i..j of a buffer. *)
RECURSIVE StmtsOf(_, _, _)
StmtsOf(buf, i, j) ==
    IF i > j THEN <<>> ELSE <<buf[i].e>> \o StmtsOf(buf, i + 1, j)

ElseAt(buf) == CHOOSE i \in 1..Len(buf) : buf[i].kind = "else"

(* Lark's parse of the buffer: "ok" with the children of the start node,   *)
(* "incomplete" for UnexpectedToken at $END (or UnexpectedEOF), "syntax"   *)
(* for any other parse error.                                              *)
Parse(buf) ==
    IF "bad" \in Kinds(buf) THEN [status |-> "syntax", tree |-> <<>>]
    ELSE IF buf[1].kind = "stmt" THEN [status |-> "ok", tree |-> <<buf[1].e>>]
    ELSE IF buf[1].kind # "if" THEN [status |-> "syntax", tree |-> <<>>]
    ELSE IF buf[Len(buf)].kind # "endif" THEN [status |-> "incomplete", tree |-> <<>>]
    ELSE IF "else" \in Kinds(buf)
    THEN [status |-> "ok",
          tree |-> <<IfElse(buf[1].e, StmtsOf(buf, 2, ElseAt(buf) - 1),
                            StmtsOf(buf, ElseAt(buf) + 1, Len(buf) - 1))>>]
    ELSE [status |-> "ok", tree |-> <<IfStmt(buf[1].e, StmtsOf(buf, 2, Len(buf) - 1))>>]

(* The lines this model lets the user type after the buffer buf: blocks    *)
(* are not nested and not empty, ELSE comes once.                          *)
Typable(buf, l) ==
    CASE l.kind = "if"    -> buf = <<>>
      [] l.kind = "else"  -> IF buf = <<>> THEN TRUE
                             ELSE buf[Len(buf)].kind = "stmt" /\ "else" \notin Kinds(buf)
      [] l.kind = "endif" -> IF buf = <<>> THEN TRUE ELSE buf[Len(buf)].kind = "stmt"
      [] OTHER -> TRUE

----------------------------------------------------------------------------
(* The statements and lines of a session. *)

Here   == BodyLoad("Here")
Chokai == BodyLoad("Chokai")
Sun    == BodyLoad("Sun")
Moon   == BodyLoad("Moon")
Mars   == BodyLoad("Mars")
Utc(s) == FuncCall("UTC", <<Lit(Str(s))>>)

(* Time = UTC("2026/01/21 20:00:00") *)
S_Time        == AssignBody("Time", Utc("2026/01/21 20:00:00"))
(* Here -> Moon *)
S_HereMoon    == Arrow(Here, Moon)
(* Here -> Moon(UTC("2026/06/21 00:00:00")) *)
S_HereMoonAt  == Arrow(Here, AuxCall("Moon", <<Utc("2026/06/21 00:00:00")>>))
(* Here -> Chokai *)
S_HereChokai  == Arrow(Here, Chokai)
(* Moon -> Mars *)
S_MoonMars    == Arrow(Moon, Mars)
(* Moon -> Here *)
S_MoonHere    == Arrow(Moon, Here)
(* 1 -> Moon *)
S_NumMoon     == Arrow(Lit(Num(100)), Moon)
(* Sun -> Here -> Moon *)
S_Eclipse     == Arrow(Arrow(Sun, Here), Moon)
(* Sun(UTC("2026/06/21 00:00:00")) -> Here -> Moon(3) *)
S_EclipseAt   == Arrow(Arrow(AuxCall("Sun", <<Utc("2026/06/21 00:00:00")>>), Here),
                       AuxCall("Moon", <<Lit(Num(300))>>))
(* Sun -> Here -> Mars *)
S_EclipseMars == Arrow(Arrow(Sun, Here), Mars)
(* x = 1 *)
S_X           == AssignVar("x", Lit(Num(100)))
(* y = Mars + 1 *)
S_Y           == AssignVar("y", Add(Mars, Lit(Num(100))))

(* Moon = 1 *)
S_Moon1       == AssignBody("Moon", Lit(Num(100)))
(* Earth = 1 *)
S_Earth1      == AssignBody("Earth", Lit(Num(100)))
(* Tz = -12.0, Tz = 14.0, Tz = 14.01, Tz = -12.01, Tz = "abc" *)
S_Vega1       == AssignBody("Vega", Lit(Num(100)))
S_Tz(v)       == AssignBody("Tz", Lit(v))
TzInputs      == {Num(-1200), Num(1400), Num(1401), Num(-1201), Str("abc")}
(* Direction(4), Direction(16), Direction(8.5), Direction(5), Direction("abc"), Direction() *)
S_Direction(args) == FuncCall("Direction", args)
DirectionInputs ==
    {<<Lit(Num(400))>>, <<Lit(Num(1600))>>, <<Lit(Num(850))>>, <<Lit(Num(500))>>,
     <<Lit(Str("abc"))>>, <<>>}

Lines ==
    {Stmt(S_Time), Stmt(S_HereMoon), Stmt(S_HereMoonAt), Stmt(S_HereChokai),
     Stmt(S_MoonMars), Stmt(S_MoonHere), Stmt(S_NumMoon), Stmt(S_Eclipse),
     Stmt(S_EclipseAt), Stmt(S_EclipseMars), Stmt(S_X), Stmt(S_Y),
     IfLine(Lit(Num(100))), ElseLine, EndifLine, BadLine, ExitLine}

(* The lines of a session that assigns and configures. *)
EnvLines ==
    {Stmt(S_Moon1), Stmt(S_Earth1), Stmt(Moon), Stmt(S_X), Stmt(S_Y), BadLine, ExitLine,
     Stmt(S_Vega1), Stmt(BodyLoad("Vega")), Stmt(BodyLoad("Foo")), Stmt(BodyLoad("Now")),
     Stmt(BodyLoad("Tz"))}
    \cup {Stmt(S_Tz(v)) : v \in TzInputs}
    \cup {Stmt(S_Direction(a)) : a \in DirectionInputs}

(* The lines of a session that assigns the configuration. *)
S_Here1       == AssignBody("Here", Lit(Num(100)))
S_HereIsChokai == AssignBody("Here", Chokai)
S_TimeStr     == AssignBody("Time", Lit(Str("abc")))
S_Echo(v)     == AssignBody("Echo", Lit(v))
S_Log(v)      == AssignBody("Log", Lit(v))
EchoInputs ==
    {Num(0), Num(100), Num(200), Str("0"), Str("off"), Str("OFF"), Str("no"),
     Str("false"), Str("yes"), Str("abc")}
S_TimeDate    == AssignBody("Time", FuncCall("Date", <<Lit(Str("2026/01/21 20:00:00"))>>))
S_TimeDateBad == AssignBody("Time", FuncCall("Date", <<Lit(Str("abc"))>>))
S_TimeUtcBad  == AssignBody("Time", FuncCall("UTC", <<Lit(Str("abc"))>>))
CfgLines ==
    {Stmt(S_Here1), Stmt(S_HereIsChokai), Stmt(S_TimeStr), Stmt(S_Time), BadLine, ExitLine,
     Stmt(S_TimeDate), Stmt(S_TimeDateBad), Stmt(S_TimeUtcBad)}
    \cup {Stmt(S_Echo(v)) : v \in EchoInputs}
    \cup {Stmt(S_Log(v)) : v \in EchoInputs}

(* Obs = Here, Obs -> Moon(UTC("2026/06/21 00:00:00")), Home() *)
S_ObsIsHere   == AssignBody("Obs", Here)
S_ObsMoonAt   == Arrow(BodyLoad("Obs"), AuxCall("Moon", <<Utc("2026/06/21 00:00:00")>>))
S_Home        == FuncCall("Home", <<>>)
S_MIsMoon     == AssignBody("M", Moon)
S_HereMAt     == Arrow(Here, AuxCall("M", <<Utc("2026/06/21 00:00:00")>>))
AliasLines ==
    {Stmt(S_ObsIsHere), Stmt(S_ObsMoonAt), Stmt(S_HereMoon), Stmt(S_HereMoonAt), Stmt(S_Home),
     Stmt(S_HereIsChokai), Stmt(S_Time), Stmt(S_MoonMars), Stmt(S_MIsMoon), Stmt(S_HereMAt),
     BadLine, ExitLine}

(* IF c THEN x = 1 z = 2 ELSE w = 3 ENDIF and IF c THEN x = 1 ENDIF, on one *)
(* line or line by line.                                                   *)
S_Z           == AssignVar("z", Lit(Num(200)))
S_W           == AssignVar("w", Lit(Num(300)))
IfInputs      == {Num(0), Num(100), Num(-50)}
S_IfElse(c)   == IfElse(Lit(c), <<S_X, S_Z>>, <<S_W>>)
S_If(c)       == IfStmt(Lit(c), <<S_X>>)
IfLines ==
    {Stmt(S_IfElse(c)) : c \in IfInputs} \cup {Stmt(S_If(c)) : c \in IfInputs}
    \cup {IfLine(Lit(c)) : c \in IfInputs}
    \cup {Stmt(S_X), Stmt(S_W), ElseLine, EndifLine, BadLine, ExitLine}

(* Logical expressions over numbers. *)
LogicInputs == {Num(0), Num(100), Num(200), Num(-50)}
S_Or(a, b)  == AssignVar("x", OrOp(Lit(a), Lit(b)))
S_And(a, b) == AssignVar("x", AndAnd(Lit(a), Lit(b)))
S_Not(a)    == AssignVar("x", NotOp(Lit(a)))
LogicLines ==
    {Stmt(S_Or(a, b)) : a \in LogicInputs, b \in LogicInputs}
    \cup {Stmt(S_And(a, b)) : a \in LogicInputs, b \in LogicInputs}
    \cup {Stmt(S_Not(a)) : a \in LogicInputs}
    \cup {BadLine, ExitLine}

(* The instants ephem.now() can return while a statement runs. *)
NowSet == {StartTime + 1, StartTime + 2}

----------------------------------------------------------------------------
(* The session. *)

NoLast ==
    [outcome |-> "none", err |-> "", v |-> None, disp |-> <<>>, tree |-> <<>>,
     pre |-> [variables |-> EmptyMap, bodies |-> EmptyMap, env |-> EmptyMap,
              obsDate |-> EmptyMap, observer |-> <<>>, code_buffer |-> <<>>]]

Snapshot ==
    [variables |-> variables, bodies |-> bodies, env |-> env, obsDate |-> obsDate,
     observer |-> observer, code_buffer |-> code_buffer]

(* SSOSystemConfig.__init__ and SSOInterpreter._load_config. *)
EnvInit ==
    [Tz |-> Num(900), Echo |-> Str("Yes"), Log |-> Str("No"),
     Time |-> Date(StartTime), Here |-> Obs("here"), Chokai |-> Obs("chokai"),
     Earth |-> Obs("earth")]

Init ==
    /\ pc = "prompt"
    /\ running = TRUE
    /\ code_buffer = <<>>
    /\ tree = <<>>
    /\ variables = EmptyMap
    /\ bodies = EmptyMap
    /\ observer = <<>>
    /\ env = EnvInit
    /\ obsDate = [o \in {"here", "chokai", "earth"} |-> StartTime]
    /\ nlines = 0
    /\ last = NoLast

(* A reset that keeps the hints. *)
reset_KeepHints(en, ob) == [env |-> en, observer |-> ob]

(* A reset that also moves Time, as the commented-out assignment would. *)
reset_MoveTime(en, ob) == [env |-> Put(en, "Time", Date(StartTime + 1)), observer |-> <<>>]

(* SSOShell.reset_observation_environment: the hints are dropped; the      *)
(* assignment to env['Time'] is commented out.                             *)
reset_observation_environment(en, ob) == [env |-> en, observer |-> <<>>]

(* A default() that forgets the buffer whatever the parse said. *)
BufferAfterParse_Reset(status, buf) == <<>>

(* What default() leaves in code_buffer after parser.parse: UnexpectedToken *)
(* at $END and UnexpectedEOF keep it, another parse error resets it, a     *)
(* parsed buffer is reset before the visit.                                *)
BufferAfterParse(status, buf) == IF status = "incomplete" THEN buf ELSE <<>>

(* cmdloop reads one line, appends it to code_buffer and hands it to       *)
(* onecmd; for every line but a shell command that is default(), up to the *)
(* parse.                                                                  *)
ReadLine(l) ==
    /\ pc = "prompt" /\ running
    /\ nlines < MaxLines
    /\ Typable(code_buffer, l)
    /\ nlines' = nlines + 1
    /\ UNCHANGED <<variables, bodies, obsDate>>
    /\ LET buf == Append(code_buffer, l)
           pre == Snapshot
       IN IF l.kind = "exit"
          THEN \* do_exit returns True: the loop ends
               /\ running' = FALSE
               /\ code_buffer' = buf
               /\ last' = [NoLast EXCEPT !.outcome = "exit", !.pre = pre]
               /\ UNCHANGED <<pc, tree, observer, env>>
          ELSE IF env["Log"].t # "Str"
          THEN \* env["Log"].strip raises AttributeError: except Exception
               /\ code_buffer' = <<>>
               /\ last' = [NoLast EXCEPT !.outcome = "log_error", !.err = "AttributeError", !.pre = pre]
               /\ UNCHANGED <<pc, running, tree, observer, env>>
          ELSE LET r == reset_observation_environment(env, observer)
                   p == Parse(buf)
               IN /\ env' = r.env
                  /\ observer' = r.observer
                  /\ running' = running
                  /\ code_buffer' = BufferAfterParse(p.status, buf)
                  /\ CASE p.status = "incomplete" ->
                            /\ last' = [NoLast EXCEPT !.outcome = "incomplete", !.pre = pre]
                            /\ UNCHANGED <<pc, tree>>
                       [] p.status = "syntax" ->
                            /\ last' = [NoLast EXCEPT !.outcome = "syntax", !.pre = pre]
                            /\ UNCHANGED <<pc, tree>>
                       [] p.status = "ok" ->
                            /\ tree' = p.tree
                            /\ pc' = "eval"
                            /\ last' = [NoLast EXCEPT !.outcome = "parsed", !.tree = p.tree, !.pre = pre]

(* default() visits the tree; an exception is printed and the buffer reset. *)
Evaluate ==
    /\ pc = "eval" /\ running
    /\ \E now \in NowSet :
         LET r == start(tree, Store(variables, bodies, observer, env, obsDate, now))
         IN /\ variables' = r.st.variables
            /\ bodies' = r.st.bodies
            /\ observer' = r.st.observer
            /\ env' = r.st.env
            /\ obsDate' = r.st.obsDate
            /\ last' = [outcome |-> IF r.err = "" THEN "ok" ELSE "error",
                        err |-> r.err, v |-> r.v, disp |-> r.st.disp, tree |-> tree,
                        pre |-> [Snapshot EXCEPT !.code_buffer = last.pre.code_buffer]]
    /\ pc' = "prompt"
    /\ tree' = <<>>
    /\ code_buffer' = <<>>
    /\ UNCHANGED <<running, nlines>>

(* Ctrl-C while session.prompt waits: "except KeyboardInterrupt: continue". *)
InterruptPrompt ==
    /\ pc = "prompt" /\ running
    /\ last' = [NoLast EXCEPT !.outcome = "interrupt", !.pre = Snapshot]
    /\ UNCHANGED <<pc, running, code_buffer, tree, variables, bodies, observer, env, obsDate, nlines>>

(* Ctrl-C while onecmd runs: KeyboardInterrupt is no Exception, default()  *)
(* does not catch it and cmdloop calls onecmd outside its try: the         *)
(* exception leaves cmdloop (the main program prints Goodbye).             *)
InterruptEval ==
    /\ pc = "eval" /\ running
    /\ running' = FALSE
    /\ last' = [NoLast EXCEPT !.outcome = "interrupt_eval", !.pre = Snapshot]
    /\ UNCHANGED <<pc, code_buffer, tree, variables, bodies, observer, env, obsDate, nlines>>

(* Ctrl-D at the prompt: EOFError leaves the loop. *)
EndOfInput ==
    /\ pc = "prompt" /\ running
    /\ running' = FALSE
    /\ last' = [NoLast EXCEPT !.outcome = "eof", !.pre = Snapshot]
    /\ UNCHANGED <<pc, code_buffer, tree, variables, bodies, observer, env, obsDate, nlines>>

Next ==
    \/ \E l \in Lines : ReadLine(l)
    \/ Evaluate
    \/ InterruptPrompt
    \/ InterruptEval
    \/ EndOfInput

Spec == Init /\ [][Next]_vars

NextEnv ==
    \/ \E l \in EnvLines : ReadLine(l)
    \/ Evaluate
    \/ InterruptPrompt
    \/ InterruptEval
    \/ EndOfInput

SpecEnv == Init /\ [][NextEnv]_vars

NextCfg ==
    \/ \E l \in CfgLines : ReadLine(l)
    \/ Evaluate
    \/ InterruptPrompt
    \/ InterruptEval
    \/ EndOfInput

SpecCfg == Init /\ [][NextCfg]_vars

NextAlias ==
    \/ \E l \in AliasLines : ReadLine(l)
    \/ Evaluate
    \/ InterruptPrompt
    \/ InterruptEval
    \/ EndOfInput

SpecAlias == Init /\ [][NextAlias]_vars

NextIf ==
    \/ \E l \in IfLines : ReadLine(l)
    \/ Evaluate
    \/ InterruptPrompt
    \/ InterruptEval
    \/ EndOfInput

SpecIf == Init /\ [][NextIf]_vars

NextLogic ==
    \/ \E l \in LogicLines : ReadLine(l)
    \/ Evaluate
    \/ InterruptPrompt
    \/ InterruptEval
    \/ EndOfInput

SpecLogic == Init /\ [][NextLogic]_vars

----------------------------------------------------------------------------
(* The conversions between UTC and local time, applied to an instant the   *)
(* session holds: local = fromUTC(utc), back = toUTC(local[:19]), the      *)
(* slice default() takes of the text (repl.py, date_str[:19]).             *)

TimeTz == {Num(-1200), Num(-500), Num(-50), Num(0), Num(50), Num(550), Num(575),
           Num(900), Num(933), Num(1400)}
TimeInstants == {0, 1, 3599, 86399, StartTime, UtcInstant("2026/01/21 20:00:00")}

InitTime ==
    /\ pc = "utc"
    /\ running = TRUE
    /\ code_buffer = <<>>
    /\ tree = <<>>
    /\ \E d \in TimeInstants : variables = Put(EmptyMap, "utc", Date(d))
    /\ bodies = EmptyMap
    /\ observer = <<>>
    /\ \E tz \in TimeTz : env = Put(EnvInit, "Tz", tz)
    /\ obsDate = [o \in {"here", "chokai", "earth"} |-> StartTime]
    /\ nlines = 0
    /\ last = NoLast

FromUTC ==
    /\ pc = "utc"
    /\ LET r == fromUTC(env["Tz"], variables["utc"])
       IN /\ variables' = Put(variables, "local", r.v)
          /\ last' = [NoLast EXCEPT !.outcome = IF r.err = "" THEN "ok" ELSE "error",
                                    !.err = r.err, !.v = r.v]
    /\ pc' = "local"
    /\ UNCHANGED <<running, code_buffer, tree, bodies, observer, env, obsDate, nlines>>

ToUTC ==
    /\ pc = "local"
    /\ LET r == toUTC(env["Tz"], [variables["local"] EXCEPT !.s = ""])
       IN /\ variables' = Put(variables, "back", r.v)
          /\ last' = [NoLast EXCEPT !.outcome = IF r.err = "" THEN "ok" ELSE "error",
                                    !.err = r.err, !.v = r.v]
    /\ pc' = "back"
    /\ UNCHANGED <<running, code_buffer, tree, bodies, observer, env, obsDate, nlines>>

NextTime == FromUTC \/ ToUTC

SpecTime == InitTime /\ [][NextTime]_vars

----------------------------------------------------------------------------
(* The refinement scan of a lunar eclipse candidate: one magnitude per     *)
(* sample of the window full_moon - 2h .. full_moon + 2h, magnitudes in    *)
(* hundredths.                                                             *)

ScanLen == 5
Magnitudes == {-50, 0, 40, 100, 120}

RECURSIVE Seqs(_, _)
Seqs(S, n) ==
    IF n = 0 THEN {<<>>} ELSE {Append(q, x) : q \in Seqs(S, n - 1), x \in S}

(* The magnitude of an eclipse rises to its greatest value and then falls. *)
RisesThenFalls(scan) ==
    \E p \in 1..Len(scan) :
        /\ \A i \in 1..(p - 1) : scan[i] <= scan[i + 1]
        /\ \A i \in p..(Len(scan) - 1) : scan[i] >= scan[i + 1]

Scans == {q \in Seqs(Magnitudes, ScanLen) : RisesThenFalls(q)}

(* Maximum = sample with greatest m. *)
Greatest(scan) == {k \in 1..Len(scan) : \A i \in 1..Len(scan) : scan[i] <= scan[k]}

(* Begin = first sample where m > 0; 0 when there is none. *)
BeginOf(scan) ==
    LET pos == {i \in 1..Len(scan) : scan[i] > 0}
    IN IF pos = {} THEN 0 ELSE CHOOSE i \in pos : \A j \in pos : i <= j

(* End = first sample after Begin where m <= 0; 0 when there is none. *)
EndOf(scan) ==
    LET b   == BeginOf(scan)
        neg == {i \in 1..Len(scan) : i > b /\ scan[i] <= 0}
    IN IF b = 0 \/ neg = {} THEN 0 ELSE CHOOSE i \in neg : \A j \in neg : i <= j

(* m >= 1.0 is total, 0 < m < 1.0 partial, anything else penumbral. *)
Classification(m) ==
    IF m >= 100 THEN "total" ELSE IF m > 0 THEN "partial" ELSE "penumbral"

InitScan ==
    /\ pc = "scan"
    /\ running = TRUE
    /\ code_buffer = <<>>
    /\ tree \in Scans
    /\ variables = EmptyMap
    /\ bodies = EmptyMap
    /\ observer = <<>>
    /\ env = EnvInit
    /\ obsDate = [o \in {"here", "chokai", "earth"} |-> StartTime]
    /\ nlines = 0
    /\ last = NoLast

Refine ==
    /\ pc = "scan"
    /\ \E k \in Greatest(tree) :
          variables' = [max |-> k, magnitude |-> tree[k], begin |-> BeginOf(tree),
                        end |-> EndOf(tree), label |-> Classification(tree[k])]
    /\ pc' = "refined"
    /\ UNCHANGED <<running, code_buffer, tree, bodies, observer, env, obsDate, nlines, last>>

NextScan == Refine

SpecScan == InitScan /\ [][NextScan]_vars

----------------------------------------------------------------------------
(* search_lunar_eclipses: the full moons of a period are visited with a    *)
(* cursor.  Instants are whole days counted from 1 January of the start    *)
(* year; the full moons fall every 30 days from the first one.             *)

Years == {1, 2}
FirstFullMoons == {3, 29}
EclipseEvery == {5, 6}

YearStart(y) == 365 * y

IsFullMoon(first, d) == d >= first /\ (d - first) % 30 = 0

(* ephem.next_full_moon(d): the full moon after d.  At the instant of a    *)
(* full moon the root finder may settle on that full moon or on the next.  *)
next_full_moon(first, d) ==
    IF d < first THEN {first}
    ELSE IF IsFullMoon(first, d) THEN {d, d + 30}
    ELSE {first + 30 * ((d - first) \div 30 + 1)}

(* lunar_eclipse_state over the window of a full moon: a label or None. *)
lunar_eclipse_state(first, every, fm) == ((fm - first) \div 30) % every = 0

InitSearch ==
    /\ pc = "search"
    /\ running = TRUE
    /\ code_buffer = <<>>
    /\ tree = <<>>
    /\ \E first \in FirstFullMoons, every \in EclipseEvery, years \in Years :
          variables = [first |-> first, every |-> every, date |-> YearStart(0),
                       end |-> YearStart(years), examined |-> <<>>, results |-> <<>>]
    /\ bodies = EmptyMap
    /\ observer = <<>>
    /\ env = EnvInit
    /\ obsDate = [o \in {"here", "chokai", "earth"} |-> StartTime]
    /\ nlines = 0
    /\ last = NoLast

(* One pass of the while loop of search_lunar_eclipses. *)
SearchStep ==
    /\ pc = "search"
    /\ variables.date < variables.end
    /\ \E full_moon \in next_full_moon(variables.first, variables.date) :
       \E next \in next_full_moon(variables.first, full_moon + 1) :
          variables' = [variables EXCEPT
              !.examined = Append(@, full_moon),
              !.results = IF lunar_eclipse_state(variables.first, variables.every, full_moon)
                          THEN Append(@, full_moon) ELSE @,
              !.date = next]
    /\ UNCHANGED <<pc, running, code_buffer, tree, bodies, observer, env, obsDate, nlines, last>>

SearchReturn ==
    /\ pc = "search"
    /\ variables.date >= variables.end
    /\ pc' = "done"
    /\ UNCHANGED <<running, code_buffer, tree, variables, bodies, observer, env, obsDate, nlines, last>>

NextSearch == SearchStep \/ SearchReturn

SpecSearch == InitSearch /\ [][NextSearch]_vars

----------------------------------------------------------------------------
(* Rising, transit and setting of a body (calculation.py).  The ephemeris  *)
(* answers a request with an instant or raises: cond is "normal",          *)
(* "AlwaysUp", "NeverUp" or "failure" (any other exception).               *)

Conditions == {"normal", "AlwaysUp", "NeverUp", "failure"}
Calculators == {"CelestialCalculator", "MoonEventCalculator"}
EventDelays == {60, 3600, 43200}
EventAngles == {Num(0), Num(4500), Num(27000)}

EVENT_ALWAYS_UP == Str("AlwaysUp")
EVENT_NEVER_UP == Str("NeverUp")

(* A result is the returned tuple, or the exception that left the call. *)
Returns(t, a) == [err |-> "", v |-> <<t, a>>]
Leaves(e) == [err |-> e, v |-> <<>>]

(* observer.next_rising / next_setting: the exception raised, "" for none. *)
next_rising(cond) == IF cond = "normal" THEN "" ELSE cond
next_setting(cond) == IF cond = "normal" THEN "" ELSE cond
(* observer.next_transit: a body that never sets or never rises still     *)
(* crosses the meridian.                                                   *)
next_transit(cond) == IF cond = "failure" THEN "failure" ELSE ""

calculate_riseing(cond, t, a) ==
    LET e == next_rising(cond)
    IN IF e = "" THEN Returns(None, None)          \* rize_time: NameError, caught below
       ELSE IF e \in {"AlwaysUp", "NeverUp"} THEN Leaves("NameError")   \* Constats
       ELSE Returns(None, None)

Celestial_calculate_transit(cond, t, a) ==
    Returns(None, None)                            \* datetime(): TypeError, caught

Celestial_calculate_setting(cond, t, a) ==
    IF next_setting(cond) = "" THEN Returns(Date(t), a) ELSE Returns(None, None)

calculate_rising(cond, t, a) ==
    LET e == next_rising(cond)
    IN IF e = "" THEN Returns(Date(t), a)
       ELSE IF e = "AlwaysUp" THEN Returns(EVENT_ALWAYS_UP, None)
       ELSE IF e = "NeverUp" THEN Returns(EVENT_NEVER_UP, None)
       ELSE Returns(None, None)

calculate_transit(cond, t, a) ==
    IF next_transit(cond) = "" THEN Returns(Date(t), a) ELSE Returns(None, None)

calculate_setting(cond, t, a) ==
    IF next_setting(cond) = "" THEN Returns(Date(t), a) ELSE Returns(None, None)

InitRise ==
    /\ pc = "rising"
    /\ running = TRUE
    /\ code_buffer = <<>>
    /\ tree = <<>>
    /\ \E c \in Calculators, cond \in Conditions, d \in EventDelays, a \in EventAngles :
          variables = [calc |-> c, cond |-> cond, delay |-> d, angle |-> a, date |-> StartTime,
                       rise |-> <<>>, transit |-> <<>>, set |-> <<>>]
    /\ bodies = EmptyMap
    /\ observer = <<>>
    /\ env = EnvInit
    /\ obsDate = [o \in {"here", "chokai", "earth"} |-> StartTime]
    /\ nlines = 0
    /\ last = NoLast

(* The call stores its tuple and moves observer.date to the instant it     *)
(* found; an exception that leaves the call ends the statement.            *)
EventCall(r, field, next) ==
    IF r.err # ""
    THEN /\ pc' = "aborted"
         /\ last' = [NoLast EXCEPT !.outcome = "error", !.err = r.err]
         /\ UNCHANGED variables
    ELSE /\ pc' = next
         /\ last' = [NoLast EXCEPT !.outcome = "ok"]
         /\ variables' = [variables EXCEPT ![field] = r.v,
                              !.date = IF r.v[1].t = "Date" THEN r.v[1].n ELSE @]

Rising ==
    /\ pc = "rising"
    /\ LET v == variables
           t == v.date + v.delay
       IN EventCall(IF v.calc = "MoonEventCalculator" THEN calculate_rising(v.cond, t, v.angle)
                    ELSE calculate_riseing(v.cond, t, v.angle), "rise", "transit")
    /\ UNCHANGED <<running, code_buffer, tree, bodies, observer, env, obsDate, nlines>>

Transit ==
    /\ pc = "transit"
    /\ LET v == variables
           t == v.date + v.delay
       IN EventCall(IF v.calc = "MoonEventCalculator" THEN calculate_transit(v.cond, t, v.angle)
                    ELSE Celestial_calculate_transit(v.cond, t, v.angle), "transit", "setting")
    /\ UNCHANGED <<running, code_buffer, tree, bodies, observer, env, obsDate, nlines>>

Setting ==
    /\ pc = "setting"
    /\ LET v == variables
           t == v.date + v.delay
       IN EventCall(IF v.calc = "MoonEventCalculator" THEN calculate_setting(v.cond, t, v.angle)
                    ELSE Celestial_calculate_setting(v.cond, t, v.angle), "set", "done")
    /\ UNCHANGED <<running, code_buffer, tree, bodies, observer, env, obsDate, nlines>>

NextRise == Rising \/ Transit \/ Setting

SpecRise == InitRise /\ [][NextRise]_vars

----------------------------------------------------------------------------
(* The cached state of a body (calculation.py, CelestialCalculator and     *)
(* _calculate_separation).  A body holds the values of its last compute:   *)
(* cache[b] is the observer and date of that compute, or Stale after a     *)
(* search of the ephemeris moved the body.  A calculation is the list of   *)
(* its steps on the body, in the order of the source.                      *)

Stale == [obs |-> "", date |-> 0]
Compute(b)    == [op |-> "compute", b |-> b, f |-> ""]
ReadField(b, f) == [op |-> "read", b |-> b, f |-> f]
Search(kind)  == [op |-> "search", b |-> 1, f |-> kind]
SetDate       == [op |-> "setdate", b |-> 1, f |-> ""]

caluclate_current_position(kind) ==
    <<Compute(1), ReadField(1, "alt"), ReadField(1, "az"), ReadField(1, "earth_distance")>>
    \o (CASE kind = "Moon" -> <<ReadField(1, "phase"), ReadField(1, "moon_phase"),
                                ReadField(1, "size")>>
          [] kind = "Sun"  -> <<>>
          [] OTHER         -> <<ReadField(1, "mag")>>)

(* next_rising, then the NameError of rize_time or the exception of the    *)
(* search: no field is read.                                               *)
riseing_steps(cond) == <<Search("rising")>>

transit_steps(cond) ==
    IF next_transit(cond) = ""
    THEN <<Search("transit"), SetDate, Compute(1), ReadField(1, "alt")>>
    ELSE <<Search("transit")>>

setting_steps_NoCompute(cond) ==
    IF next_setting(cond) = ""
    THEN <<Search("setting"), SetDate, ReadField(1, "alt")>>
    ELSE <<Search("setting")>>

setting_steps(cond) ==
    IF next_setting(cond) = ""
    THEN <<Search("setting"), SetDate, Compute(1), ReadField(1, "alt")>>
    ELSE <<Search("setting")>>

separation_steps == <<Compute(1), Compute(2), ReadField(1, "ra"), ReadField(2, "ra")>>

Calculations ==
    {caluclate_current_position(k) : k \in {"Moon", "Sun", "Mars"}}
    \cup {riseing_steps(c) : c \in Conditions}
    \cup {transit_steps(c) : c \in Conditions}
    \cup {setting_steps(c) : c \in Conditions}
    \cup {separation_steps}

CacheStates ==
    {Stale} \cup {[obs |-> o, date |-> d] : o \in {"here", "chokai"},
                                           d \in {StartTime, StartTime + 3600}}

InitCache ==
    /\ pc = "calc"
    /\ running = TRUE
    /\ code_buffer = <<>>
    /\ tree \in Calculations
    /\ variables = [op |-> "", b |-> 0, f |-> ""]
    /\ \E c1 \in CacheStates, c2 \in CacheStates : bodies = <<c1, c2>>
    /\ observer \in {"here", "chokai"}
    /\ env = EnvInit
    /\ \E d \in {StartTime, StartTime + 3600} :
          obsDate = [o \in {"here", "chokai", "earth"} |-> d]
    /\ nlines = 0
    /\ last = NoLast

(* The next step of the calculation. *)
CalcStep ==
    /\ pc = "calc"
    /\ tree # <<>>
    /\ LET s == Head(tree)
       IN /\ variables' = s
          /\ bodies' = CASE s.op = "compute" ->
                               [bodies EXCEPT ![s.b] = [obs |-> observer, date |-> obsDate[observer]]]
                         [] s.op = "search"  -> [bodies EXCEPT ![s.b] = Stale]
                         [] OTHER            -> bodies
          /\ \E delay \in EventDelays :
                obsDate' = IF s.op = "setdate"
                           THEN [obsDate EXCEPT ![observer] = @ + delay]
                           ELSE obsDate
    /\ tree' = Tail(tree)
    /\ UNCHANGED <<pc, running, code_buffer, observer, env, nlines, last>>

CalcReturn ==
    /\ pc = "calc"
    /\ tree = <<>>
    /\ pc' = "done"
    /\ UNCHANGED <<running, code_buffer, tree, variables, bodies, observer, env, obsDate, nlines, last>>

NextCache == CalcStep \/ CalcReturn

SpecCache == InitCache /\ [][NextCache]_vars

----------------------------------------------------------------------------
(* The events block (formatter.py, BodyPosition.format_events).  An event  *)
(* is the tuple a calculator returned: <<time, angle>>, <<sentinel, None>> *)
(* or <<None, None>>.                                                      *)

EventOutcomes ==
    {<<Date(StartTime + d), a>> : d \in {60, 43200}, a \in {Num(4500), Num(35999)}}
    \cup {<<EVENT_ALWAYS_UP, None>>, <<EVENT_NEVER_UP, None>>, <<None, None>>}

NoEventText == Str("--:-- (none)")
AlwaysUpText == Str("always above the horizon")
NeverUpText == Str("always below the horizon")

(* BodyPosition._format_event_time *)
_format_event_time(Tz, event_time) ==
    IF event_time = None THEN [err |-> "", v |-> NoEventText]
    ELSE IF event_time = EVENT_ALWAYS_UP THEN [err |-> "", v |-> AlwaysUpText]
    ELSE IF event_time = EVENT_NEVER_UP THEN [err |-> "", v |-> NeverUpText]
    ELSE IF event_time.t # "Date" THEN [err |-> "AttributeError", v |-> None]
    ELSE fromUTC(Tz, event_time)

(* BodyPosition.directions: float(degree) % 360, then the sector of the    *)
(* compass of 4, 8 or 16 points, counted from north.                       *)
directions(degree, intermediate) ==
    IF ~FloatOk(degree) THEN [err |-> FloatErr(degree), v |-> None]
    ELSE LET deg == FloatOf(degree) % 36000
         IN CASE intermediate = Num(400)  ->
                     [err |-> "", v |-> Num(((deg + 4500) \div 9000) % 4)]
              [] intermediate = Num(800)  ->
                     [err |-> "", v |-> Num(((deg + 2250) \div 4500) % 8)]
              [] intermediate = Num(1600) ->
                     [err |-> "", v |-> Num(((deg + 1125) \div 2250) % 16)]
              [] OTHER -> [err |-> "ValueError", v |-> None]

(* BodyPosition.format_events: the three time texts, then the lines of     *)
(* the block; the rise and set lines name the compass direction of their   *)
(* azimuth.                                                                *)
format_events(Tz, direction, rise_data, transit_data, set_data) ==
    LET rise_str    == _format_event_time(Tz, rise_data[1])
        transit_str == _format_event_time(Tz, transit_data[1])
        set_str     == _format_event_time(Tz, set_data[1])
        rise_dir    == directions(rise_data[2], direction)
        set_dir     == directions(set_data[2], direction)
    IN IF rise_str.err # "" THEN [err |-> rise_str.err, v |-> <<>>]
       ELSE IF transit_str.err # "" THEN [err |-> transit_str.err, v |-> <<>>]
       ELSE IF set_str.err # "" THEN [err |-> set_str.err, v |-> <<>>]
       ELSE IF rise_dir.err # "" THEN [err |-> rise_dir.err, v |-> <<>>]
       ELSE IF set_dir.err # "" THEN [err |-> set_dir.err, v |-> <<>>]
       ELSE [err |-> "", v |-> <<rise_str.v, transit_str.v, set_str.v>>]

InitEvents ==
    /\ pc = "events"
    /\ running = TRUE
    /\ code_buffer = <<>>
    /\ tree = <<>>
    /\ \E r \in EventOutcomes, t \in EventOutcomes, s \in EventOutcomes :
          variables = [rise |-> r, transit |-> t, set |-> s]
    /\ bodies = EmptyMap
    /\ observer = <<>>
    /\ env \in {EnvInit, Put(EnvInit, "Direction", Num(400)), Put(EnvInit, "Direction", Num(1600))}
    /\ obsDate = [o \in {"here", "chokai", "earth"} |-> StartTime]
    /\ nlines = 0
    /\ last = NoLast

FormatEvents ==
    /\ pc = "events"
    /\ LET r == format_events(env["Tz"], Get(env, "Direction", Num(800)),
                              variables.rise, variables.transit, variables.set)
       IN last' = [NoLast EXCEPT !.outcome = IF r.err = "" THEN "ok" ELSE "error",
                                 !.err = r.err, !.disp = r.v]
    /\ pc' = "rendered"
    /\ UNCHANGED <<running, code_buffer, tree, variables, bodies, observer, env, obsDate, nlines>>

NextEvents == FormatEvents

SpecEvents == InitEvents /\ [][NextEvents]_vars

----------------------------------------------------------------------------
(* The events of one observation (MoonFormatter.format of formatter.py     *)
(* with CelestialCalculator, MoonFormatterRefactored.format of classes.py  *)
(* with MoonEventCalculator): the observer is put at local midnight, then  *)
(* rising, transit, setting and the noon age are calculated on it.         *)

(* The instant the UTC calendar day of t starts at. *)
DayStart(t) == t - (t % 86400)

(* get_local_midnight that cuts the day in UTC. *)
get_local_midnight_UtcDay(Tz, date) == DayStart(date)

(* get_local_midnight: the date in the zone of Tz, its time of day set to  *)
(* 00:00:00, back in UTC.                                                  *)
get_local_midnight(Tz, date) ==
    LET local_now == date + Tz.n * 36
        local_midnight == DayStart(local_now)
    IN local_midnight - Tz.n * 36

(* calculate_Moon_noon_age: the instant the age is taken at, 12:00 of the  *)
(* UTC calendar day of observer.date less Tz hours.                        *)
local_noon_in_utc(Tz, date) == DayStart(date) + 43200 - Tz.n * 36

(* observer.date after a calculation that searched from date and found t:  *)
(* the calculation writes the date once its search has returned, except    *)
(* calculate_riseing, which fails before the write.                        *)
DateLeft(calc, kind, cond, date, t) ==
    IF calc = "CelestialCalculator" /\ kind = "rising" THEN date
    ELSE IF (IF kind = "transit" THEN next_transit(cond) ELSE next_rising(cond)) = "" THEN t
    ELSE date

FormatTz == {Num(-1200), Num(-500), Num(0), Num(550), Num(900), Num(1400)}
FormatDates == {StartTime, StartTime + 40000, 200000, 300000 + 86399}

InitFormat ==
    /\ pc = "midnight"
    /\ running = TRUE
    /\ code_buffer = <<>>
    /\ tree = <<>>
    /\ \E c \in Calculators, cond \in Conditions, d \in FormatDates :
          variables = [calc |-> c, cond |-> cond, angle |-> Num(4500), start |-> d, date |-> d,
                       midnight |-> 0, searches |-> <<>>,
                       rise |-> <<>>, transit |-> <<>>, set |-> <<>>, noon |-> 0]
    /\ bodies = EmptyMap
    /\ observer = <<>>
    /\ \E tz \in FormatTz : env = Put(EnvInit, "Tz", tz)
    /\ obsDate = [o \in {"here", "chokai", "earth"} |-> StartTime]
    /\ nlines = 0
    /\ last = NoLast

(* local_midnight = get_local_midnight(); observer.date = local_midnight *)
Midnight ==
    /\ pc = "midnight"
    /\ LET m == get_local_midnight(env["Tz"], variables.date)
       IN variables' = [variables EXCEPT !.midnight = m, !.date = m]
    /\ pc' = "rising"
    /\ UNCHANGED <<running, code_buffer, tree, bodies, observer, env, obsDate, nlines, last>>

(* One of the three calculations: the search starts at observer.date. *)
EventStep(kind, field, next, r, t) ==
    IF r.err # ""
    THEN /\ pc' = "aborted"
         /\ last' = [NoLast EXCEPT !.outcome = "error", !.err = r.err]
         /\ UNCHANGED variables
    ELSE /\ pc' = next
         /\ last' = [NoLast EXCEPT !.outcome = "ok"]
         /\ variables' = [variables EXCEPT
                ![field] = r.v,
                !.searches = Append(@, [from |-> variables.date, found |-> t]),
                !.date = DateLeft(variables.calc, kind, variables.cond, @, t)]

FormatRising ==
    /\ pc = "rising"
    /\ \E delay \in EventDelays :
       LET v == variables
           t == v.date + delay
       IN EventStep("rising", "rise", "transit",
                    IF v.calc = "MoonEventCalculator" THEN calculate_rising(v.cond, t, v.angle)
                    ELSE calculate_riseing(v.cond, t, v.angle), t)
    /\ UNCHANGED <<running, code_buffer, tree, bodies, observer, env, obsDate, nlines>>

FormatTransit ==
    /\ pc = "transit"
    /\ \E delay \in EventDelays :
       LET v == variables
           t == v.date + delay
       IN EventStep("transit", "transit", "setting",
                    IF v.calc = "MoonEventCalculator" THEN calculate_transit(v.cond, t, v.angle)
                    ELSE Celestial_calculate_transit(v.cond, t, v.angle), t)
    /\ UNCHANGED <<running, code_buffer, tree, bodies, observer, env, obsDate, nlines>>

FormatSetting ==
    /\ pc = "setting"
    /\ \E delay \in EventDelays :
       LET v == variables
           t == v.date + delay
       IN EventStep("setting", "set", "age",
                    IF v.calc = "MoonEventCalculator" THEN calculate_setting(v.cond, t, v.angle)
                    ELSE Celestial_calculate_setting(v.cond, t, v.angle), t)
    /\ UNCHANGED <<running, code_buffer, tree, bodies, observer, env, obsDate, nlines>>

NoonAge ==
    /\ pc = "age"
    /\ variables' = [variables EXCEPT !.noon = local_noon_in_utc(env["Tz"], variables.date)]
    /\ pc' = "done"
    /\ UNCHANGED <<running, code_buffer, tree, bodies, observer, env, obsDate, nlines, last>>

NextFormat == Midnight \/ FormatRising \/ FormatTransit \/ FormatSetting \/ NoonAge

SpecFormat == InitFormat /\ [][NextFormat]_vars

----------------------------------------------------------------------------
(* Helpers of the properties. *)

(* The store as it stands between statements. *)
CurrentStore == Store(variables, bodies, observer, env, obsDate, StartTime)

(* default() has just visited a tree (with or without an exception). *)
Evaluated == pc = "prompt" /\ last.outcome \in {"ok", "error"}

(* default() has just visited the one-line statement e. *)
Ran(e) == Evaluated /\ last.tree = <<e>>

(* The tree e holds a node of rule op with the name nm. *)
RECURSIVE Holds(_, _, _)
Holds(e, op, nm) ==
    \/ e.op = op /\ e.name = nm
    \/ \E i \in 1..Len(e.kids) : Holds(e.kids[i], op, nm)

HoldsIn(stmts, op, nm) == \E i \in 1..Len(stmts) : Holds(stmts[i], op, nm)

(* A value that is one of the evaluator's "Error: ..." messages. *)
IsErrorMessage(v) ==
    v.t = "Str" /\ v.s \in {"Error: Cannot set", "Error: Cannot set Body name",
                            "Error: Invalid arrow operation"}

(* What a load of a reserved name yields in a fresh session. *)
DefaultOf(nm) == IF nm = "Earth" THEN Obs("earth") ELSE Body(nm)

SameEnvironment ==
    /\ variables = last.pre.variables
    /\ bodies = last.pre.bodies
    /\ env = last.pre.env

----------------------------------------------------------------------------
(* C1: whenever the evaluator is about to visit a parsed statement, the    *)
(* observer hints (VariableManager.observer) are empty, whatever earlier     *)
(* statements stored and however they ended.                               *)
C1_HintsEmptyAtStatementStart == pc = "eval" => observer = <<>>

(* An earlier statement stored a hint, wrote Here's date and ended in an   *)
(* error; the next statement is parsed and about to be visited.            *)
C1_Witness ==
    /\ pc = "eval"
    /\ last.pre.observer # <<>>
    /\ obsDate["here"] = 300000

----------------------------------------------------------------------------
(* C2: set_body refuses every reserved name with every value and leaves    *)
(* the store as it was, and the name still loads as the default body;      *)
(* after a statement Name = literal in particular, variables, bodies and   *)
(* env are those from before the statement.                                *)
C2_Values == {Num(100), Str("abc"), Date(200000), Obs("chokai"), Body("Mars"), None}

----------------------------------------------------------------------------
(* C3: the assignment Tz = v succeeds iff -12 <= v <= 14, and a failed one *)
(* leaves env.Tz as it was.                                                *)
C3_TzRangeChecked ==
    \A v \in TzInputs :
        Ran(S_Tz(v)) =>
            /\ (last.outcome = "ok" /\ ~IsErrorMessage(last.v) /\ env["Tz"] = v)
                  <=> (v.t = "Num" /\ -1200 <= v.n /\ v.n <= 1400)
            /\ ~(v.t = "Num" /\ -1200 <= v.n /\ v.n <= 1400) => env["Tz"] = last.pre.env["Tz"]

----------------------------------------------------------------------------
(* C4: Direction(n) succeeds iff n is 4, 8 or 16; any other call ends in   *)
(* an error and leaves env.Direction as it was; env.Direction, once set,   *)
(* is 4, 8 or 16.                                                          *)
C4_Allowed(args) == Len(args) = 1 /\ args[1].val \in {Num(400), Num(800), Num(1600)}

C4_DirectionChecked ==
    /\ "Direction" \in DOMAIN env => env["Direction"] \in {Num(400), Num(800), Num(1600)}
    /\ \A a \in DirectionInputs :
          Ran(S_Direction(a)) =>
              IF C4_Allowed(a)
              THEN last.outcome = "ok" /\ env["Direction"] = a[1].val
              ELSE last.outcome = "error" /\ env = last.pre.env

----------------------------------------------------------------------------
----------------------------------------------------------------------------
(* C6: after an Observer -> Body dispatch the Observer's date is the hint  *)
(* this statement stored under the body's name, if it stored one, and      *)
(* env.Time otherwise, whatever date the Observer had before.              *)
C6_ObserverDateFromHintOrTime ==
    Evaluated =>
        \A i \in 1..Len(last.disp) :
            LET d == last.disp[i]
            IN (d.shape = "Observer->Body" /\ d.date # None) =>
                 /\ \A k \in HintKeys(observer) : HoldsIn(last.tree, "auxcall", k)
                 /\ obsDate[d.l.s] =
                       IF d.r.s \in HintKeys(observer)
                       THEN DateOf(HintGet(observer, d.r.s, None))
                       ELSE DateOf(env["Time"])

(* Here -> Moon ran when an earlier statement had left Here the date of    *)
(* its hint; Here now has env.Time.                                        *)
C6_Witness ==
    /\ Ran(S_HereMoon)
    /\ last.pre.obsDate["here"] = UtcInstant("2026/06/21 00:00:00")
    /\ obsDate["here"] = DateOf(env["Time"])

----------------------------------------------------------------------------
(* C7: a statement that applies the arrow to a pair no dispatch shape      *)
(* takes ends in the error "Invalid arrow operation".                      *)
C7_UnmatchedPairIsError ==
    Evaluated =>
        \A i \in 1..Len(last.disp) :
            last.disp[i].shape = "none" =>
                \/ last.outcome = "error" /\ last.err = "Invalid arrow operation"
                \/ last.v = Str("Error: Invalid arrow operation")

----------------------------------------------------------------------------
(* C8: Sun -> O -> R is two dispatches in order: (Sun, O), which runs no   *)
(* eclipse search and yields the EarthContext of O dated by the hint under *)
(* "Sun" or else env.Time, then (EarthContext, R), which runs the eclipse  *)
(* engine exactly once when R is the Moon and is an error otherwise.       *)
C8_Runs(disp) == LET n[i \in 0..Len(disp)] == IF i = 0 THEN 0 ELSE n[i - 1] + disp[i].runs
                 IN n[Len(disp)]

C8_ChainedArrow ==
    \A s \in {S_Eclipse, S_EclipseAt, S_EclipseMars} :
        Ran(s) =>
            /\ Len(last.disp) >= 1
            /\ last.disp[1].shape = "Sun->Observer"
            /\ last.disp[1].runs = 0
            /\ last.disp[1].date =
                  IF "Sun" \in HintKeys(observer)
                  THEN Date(DateOf(HintGet(observer, "Sun", None)))
                  ELSE Date(DateOf(env["Time"]))
            /\ IF s.kids[2].name = "Moon"
               THEN /\ Len(last.disp) = 2
                    /\ last.disp[2].shape = "Earth->Moon"
                    /\ last.disp[2].l = Earth("here")
                    /\ C8_Runs(last.disp) = 1
                    /\ last.outcome = "ok"
               ELSE /\ C8_Runs(last.disp) = 0
                    /\ last.outcome = "error" \/ IsErrorMessage(last.v)

----------------------------------------------------------------------------
(* C9: when the visit of a statement raises, variables, bodies and env are *)
(* those from before the statement.                                        *)
C9_ErrorLeavesStateUntouched ==
    (Evaluated /\ last.outcome = "error") => SameEnvironment

----------------------------------------------------------------------------
(* C10: an interrupt returns the session to the prompt: it keeps running,  *)
(* no multi-line input is pending, the hints are reset, and variables,     *)
(* bodies and env are those from before the interrupted statement.         *)
C10_InterruptReturnsToPrompt ==
    last.outcome \in {"interrupt", "interrupt_eval"} =>
        /\ running
        /\ pc = "prompt"
        /\ code_buffer = <<>>
        /\ observer = <<>>
        /\ SameEnvironment

----------------------------------------------------------------------------
(* C11: when the parse of the buffer fails at the end of the input the     *)
(* buffer is kept, with the line just typed appended to what was pending,  *)
(* and the next parse reads the pending lines followed by the next line;   *)
(* after another parse error, an evaluation error or a successful          *)
(* evaluation the buffer is empty at the prompt.                           *)
C11_BufferRetainedOnlyWhenIncomplete ==
    /\ last.outcome = "incomplete" =>
          /\ pc = "prompt"
          /\ Len(code_buffer) = Len(last.pre.code_buffer) + 1
          /\ SubSeq(code_buffer, 1, Len(last.pre.code_buffer)) = last.pre.code_buffer
          /\ Parse(code_buffer).status = "incomplete"
    /\ last.outcome = "parsed" =>
          \E l \in Lines : Parse(Append(last.pre.code_buffer, l)) = [status |-> "ok", tree |-> tree]
    /\ (pc = "prompt" /\ last.outcome \in {"syntax", "ok", "error", "log_error"}) =>
          code_buffer = <<>>

(* A second line was appended to a pending IF line and the block is still  *)
(* open.                                                                   *)
C11_Witness ==
    /\ last.outcome = "incomplete"
    /\ Len(code_buffer) = 2
    /\ code_buffer[1].kind = "if"

----------------------------------------------------------------------------
(* C12: get_body returns the env value for an env key, the current instant *)
(* for "Now", the stored body for a stored name; the first load of a body  *)
(* name the ephemeris knows registers the default body, and every later    *)
(* load returns that body; any other name fails and leaves bodies as they  *)
(* were.  The same holds of the statement that loads the name.             *)
C12_Names == (DOMAIN env) \cup {"Now"} \cup EphemBodies \cup (DOMAIN bodies) \cup {"Vega", "Foo"}

C12_Load(st, nm, r) ==
    IF nm \in DOMAIN st.env THEN r.err = "" /\ r.v = st.env[nm] /\ r.st = st
    ELSE IF nm = "Now" THEN r.err = "" /\ r.v = Date(st.now) /\ r.st = st
    ELSE IF nm \in DOMAIN st.bodies THEN r.err = "" /\ r.v = st.bodies[nm] /\ r.st = st
    ELSE IF nm \in EphemBodies
    THEN /\ r.err = "" /\ r.v = Body(nm)
         /\ r.st = [st EXCEPT !.bodies = Put(st.bodies, nm, Body(nm))]
         /\ LET again == get_body(r.st, nm)
            IN again.err = "" /\ again.v = r.v /\ again.st = r.st
    ELSE r.err # "" /\ r.st = st

C12_GetBody ==
    /\ \A nm \in C12_Names : \A now \in NowSet :
          LET st == [CurrentStore EXCEPT !.now = now]
          IN C12_Load(st, nm, get_body(st, nm))
    /\ \A nm \in C12_Names :
          Ran(BodyLoad(nm)) =>
              \E now \in NowSet :
                  LET pre == Store(last.pre.variables, last.pre.bodies, <<>>, last.pre.env,
                                   last.pre.obsDate, now)
                      r == [st |-> [pre EXCEPT !.bodies = bodies], v |-> last.v,
                            err |-> last.err]
                  IN C12_Load(pre, nm, r) /\ (last.outcome = "error" <=> r.err # "")

(* Moon is loaded again after its first load registered it. *)
C12_Witness ==
    /\ Ran(Moon)
    /\ "Moon" \in DOMAIN last.pre.bodies
    /\ last.v = Body("Moon")
    /\ bodies = last.pre.bodies

----------------------------------------------------------------------------
(* C13: env.Here is always an Observer and env.Time always a Date; the     *)
(* assignment of a value of another type to Here or Time ends in an error  *)
(* and leaves env as it was.                                               *)
C13_HereAndTimeTypeChecked ==
    /\ env["Here"].t = "Obs"
    /\ env["Time"].t = "Date"
    /\ \A s \in {S_Here1, S_TimeStr} :
          Ran(s) => /\ last.outcome = "error" \/ IsErrorMessage(last.v)
                    /\ env = last.pre.env

----------------------------------------------------------------------------
(* C14: after Echo = v or Log = v the stored value is "No" when v is 0,    *)
(* off, false or no in any letter case, and "Yes" for every other v.       *)
C14_IsOff(v) ==
    \/ v = Num(0)
    \/ v.t = "Str" /\ v.s \in {"0", "off", "Off", "OFF", "no", "No", "NO", "false", "False", "FALSE"}

C14_EchoLogNormalised ==
    \A v \in EchoInputs :
        /\ Ran(S_Echo(v)) => env["Echo"] = IF C14_IsOff(v) THEN Str("No") ELSE Str("Yes")
        /\ Ran(S_Log(v))  => env["Log"]  = IF C14_IsOff(v) THEN Str("No") ELSE Str("Yes")

----------------------------------------------------------------------------
(* C15: for every instant and every Tz from -12 to 14, fromUTC adds        *)
(* exactly Tz hours, and toUTC of the local time it printed subtracts      *)
(* exactly Tz hours and returns the instant.                               *)
C15_RoundTrip ==
    /\ pc \in {"local", "back"} =>
          variables["local"].n = variables["utc"].n + 36 * env["Tz"].n
    /\ pc = "back" =>
          /\ last.err = ""
          /\ variables["back"] = variables["utc"]

----------------------------------------------------------------------------
(* C20: Time = Date(s) and Time = UTC(s) with a text s that is no date end *)
(* in an error and leave env.Time as it was.                               *)
C20_BadDateAborts ==
    \A s \in {S_TimeDateBad, S_TimeUtcBad} :
        Ran(s) => /\ last.outcome = "error"
                  /\ env["Time"] = last.pre.env["Time"]

----------------------------------------------------------------------------
(* C16: whenever a refinement scan produces both Begin and End, Begin is   *)
(* strictly before the Maximum and the Maximum strictly before End.        *)
C16_BeginMaxEnd ==
    (pc = "refined" /\ variables.begin # 0 /\ variables.end # 0) =>
        /\ variables.begin < variables.max
        /\ variables.max < variables.end

----------------------------------------------------------------------------
(* C17: a finished search has examined every full moon from its start to   *)
(* the end of its period exactly once and in chronological order, and has  *)
(* listed every eclipse among them.                                        *)
C17_EveryFullMoonExaminedOnce ==
    pc = "done" =>
        LET v   == variables
            fms == {d \in YearStart(0)..(v.end - 1) : IsFullMoon(v.first, d)}
        IN /\ Len(v.examined) = Cardinality(fms)
           /\ \A i \in 1..Len(v.examined) : v.examined[i] \in fms
           /\ \A i \in 1..(Len(v.examined) - 1) : v.examined[i] < v.examined[i + 1]
           /\ {v.results[i] : i \in 1..Len(v.results)}
                 = {d \in fms : lunar_eclipse_state(v.first, v.every, d)}

----------------------------------------------------------------------------
(* C18: under AlwaysUp (NeverUp) rising and setting both return the        *)
(* AlwaysUp (NeverUp) sentinel with no angle and transit returns a time;   *)
(* any other failure of the ephemeris gives (None, None); no call ends     *)
(* the statement.                                                          *)
C18_Sentinel(cond) == IF cond = "AlwaysUp" THEN EVENT_ALWAYS_UP ELSE EVENT_NEVER_UP

C18_SentinelsAndNoAbort ==
    LET v == variables
    IN /\ pc # "aborted"
       /\ (pc = "done" /\ v.cond \in {"AlwaysUp", "NeverUp"}) =>
              /\ v.rise = <<C18_Sentinel(v.cond), None>>
              /\ v.set = <<C18_Sentinel(v.cond), None>>
              /\ v.transit[1].t = "Date"
       /\ (pc = "done" /\ v.cond = "failure") =>
              /\ v.rise = <<None, None>>
              /\ v.transit = <<None, None>>
              /\ v.set = <<None, None>>

----------------------------------------------------------------------------
(* C19: over numbers, a OR b, a AND b and NOT a are 1.0 when the           *)
(* combination of the truth values of the operands (0 false, any other     *)
(* number true) is true and 0.0 when it is false.                          *)
C19_Bool(b) == Num(IF b THEN 100 ELSE 0)

C19_LogicalResultIsZeroOrOne ==
    \A a \in LogicInputs :
        /\ Ran(S_Not(a)) => last.outcome = "ok" /\ last.v = C19_Bool(a.n = 0)
        /\ \A b \in LogicInputs :
              /\ Ran(S_Or(a, b))  => /\ last.outcome = "ok"
                                     /\ last.v = C19_Bool(a.n # 0 \/ b.n # 0)
              /\ Ran(S_And(a, b)) => /\ last.outcome = "ok"
                                     /\ last.v = C19_Bool(a.n # 0 /\ b.n # 0)

----------------------------------------------------------------------------
(* C21: when a calculation reads a field of a body, the body was last      *)
(* computed on the calculation's observer at the date the observer has at  *)
(* the read.                                                               *)
C21_ComputeBeforeRead ==
    (pc = "calc" /\ variables.op = "read") =>
        bodies[variables.b] = [obs |-> observer, date |-> obsDate[observer]]

C21_Witness ==
    /\ pc = "calc" /\ variables.op = "read" /\ variables.f = "alt"
    /\ obsDate[observer] > StartTime + 3600

----------------------------------------------------------------------------
(* C22: once Obs = Here has bound a second name, Obs -> Moon(date) leaves  *)
(* the date of the observer that Here names as it was, and Home() makes    *)
(* Here the start-up observer.                                             *)
C22_SharedByValue ==
    /\ (Ran(S_ObsMoonAt) /\ Get(last.pre.bodies, "Obs", None).t = "Obs") =>
           obsDate[env["Here"].s] = last.pre.obsDate[env["Here"].s]
    /\ Ran(S_Home) => env["Here"] = Obs("here")

----------------------------------------------------------------------------
(* C23: whatever the rise, transit and set outcomes are, the events block  *)
(* is rendered without an error, and each event shows its local time, the  *)
(* always-above text, the always-below text or the text of no event.       *)
C23_Shown(event, text) ==
    CASE event[1] = None            -> text = NoEventText
      [] event[1] = EVENT_ALWAYS_UP -> text = AlwaysUpText
      [] event[1] = EVENT_NEVER_UP  -> text = NeverUpText
      [] OTHER                      -> text.t = "Local"

C23_EventsRendered ==
    pc = "rendered" =>
        /\ last.outcome = "ok"
        /\ C23_Shown(variables.rise, last.disp[1])
        /\ C23_Shown(variables.transit, last.disp[2])
        /\ C23_Shown(variables.set, last.disp[3])

----------------------------------------------------------------------------
(* C24: the local midnight M of an observer date d is a UTC instant that,  *)
(* shifted by Tz hours, is 00:00:00, with M <= d < M + 24h.                *)
C24_LocalMidnight ==
    pc # "midnight" =>
        LET M == variables.midnight
            d == variables.start
        IN /\ (M + env["Tz"].n * 36) % 86400 = 0
           /\ M <= d
           /\ d < M + 86400

C24_Witness ==
    /\ pc = "rising"
    /\ env["Tz"] = Num(550)
    /\ variables.midnight # DayStart(variables.start)

(* C25: the noon age is taken at local noon of the day whose local         *)
(* midnight the observer was put at (in either reading of the formula:     *)
(* midnight + 12h, or midnight + 12h - Tz hours), whatever the rising,     *)
(* transit and setting calculations did before.                            *)
C25_NoonOfObservationDay ==
    pc = "done" =>
        variables.noon \in {variables.midnight + 43200,
                            variables.midnight + 43200 - env["Tz"].n * 36}

(* C27: when the ephemeris finds a rising, a transit and a setting, the    *)
(* reported rise is the rising found from local midnight, the reported     *)
(* transit the one found from the date the rise step left, the reported    *)
(* set the one found from the date the transit step left, and              *)
(* rise < transit < set.                                                   *)
C27_ChainedFromMidnight ==
    (pc = "done" /\ variables.cond = "normal") =>
        LET v == variables
        IN /\ v.searches[1].from = v.midnight
           /\ v.rise[1] = Date(v.searches[1].found)
           /\ v.transit[1] = Date(v.searches[2].found)
           /\ v.set[1] = Date(v.searches[3].found)
           /\ v.searches[1].found < v.searches[2].found
           /\ v.searches[2].found < v.searches[3].found

----------------------------------------------------------------------------
(* C26: an IF with a non-zero condition runs the statements of its THEN    *)
(* block and no other, an IF with a zero condition those of its ELSE block *)
(* (none without ELSE, the result then being empty); the result is the     *)
(* value of the last statement that ran.                                   *)
C26_MatchingBlockOnly ==
    \A c \in IfInputs :
        /\ Ran(S_IfElse(c)) =>
              /\ last.outcome = "ok"
              /\ IF c.n # 0
                 THEN /\ variables = Put(Put(last.pre.variables, "x", Num(100)), "z", Num(200))
                      /\ last.v = Num(200)
                 ELSE /\ variables = Put(last.pre.variables, "w", Num(300))
                      /\ last.v = Num(300)
        /\ Ran(S_If(c)) =>
              /\ last.outcome = "ok"
              /\ IF c.n # 0
                 THEN variables = Put(last.pre.variables, "x", Num(100)) /\ last.v = Num(100)
                 ELSE variables = last.pre.variables /\ last.v = None
        /\ (Ran(S_IfElse(c)) \/ Ran(S_If(c))) =>
              /\ env = last.pre.env
              /\ bodies = last.pre.bodies

C26_Witness ==
    /\ Ran(S_IfElse(Num(0)))
    /\ "x" \in DOMAIN last.pre.variables
    /\ "z" \notin DOMAIN variables
    /\ variables["w"] = Num(300)

----------------------------------------------------------------------------
(* C28: whatever was assigned to Log and Echo, the Log-mode lookup that    *)
(* opens the handling of a line does not fail: no line ends in the error   *)
(* of that lookup.                                                         *)
C28_LogLookupNeverFails == last.outcome # "log_error"

----------------------------------------------------------------------------
(* C29: Body -> Body computes the two bodies at env.Here at the date       *)
(* env.Time, whatever statements ran before, and leaves env.Here and       *)
(* env.Time as they were.                                                  *)
C29_SeparationAtTime ==
    Ran(S_MoonMars) =>
        /\ last.outcome = "ok"
        /\ last.disp[1].shape = "Body->Body"
        /\ last.disp[1].date = env["Time"]
        /\ env["Here"] = last.pre.env["Here"]
        /\ env["Time"] = last.pre.env["Time"]

----------------------------------------------------------------------------
(* C30: N(arg) stores arg as the hint of slot N, and Observer -> N(arg)    *)
(* observes at arg, for the built-in name Moon as well as for the alias M  *)
(* assigned by M = Moon.                                                   *)
C30_Observed(slot) ==
    /\ HintGet(observer, slot, None) = Date(UtcInstant("2026/06/21 00:00:00"))
    /\ Len(last.disp) = 1
    /\ last.disp[1].shape = "Observer->Body"
    /\ last.disp[1].r = Body("Moon")
    /\ last.disp[1].date = Date(UtcInstant("2026/06/21 00:00:00"))

C30_HintUsedForEverySlot ==
    /\ Ran(S_HereMoonAt) => C30_Observed("Moon")
    /\ (Ran(S_HereMAt) /\ Get(last.pre.bodies, "M", None) = Body("Moon")) => C30_Observed("M")

=============================================================================
